---- MODULE Spec2Model ----
(***************************************************************************)
(* State-machine model of the authentication / session subsystem of the    *)
(* Talbot Hotels backend (app/services/auth_service.py,                    *)
(* app/repositories/refresh_token_repository.py, app/core/dependencies.py, *)
(* app/api/routers/auth.py).                                               *)
(*                                                                         *)
(* Time is a discrete clock `now`; every request handler runs at one clock *)
(* reading (requests are served one at a time; SpecRace alone serves login *)
(* requests concurrently, statement by statement).  Opaque refresh-token   *)
(* strings are modelled by fresh naturals 1,2,3,...; the string 0 is a     *)
(* string the server never generated.  Strings that are normalised by the  *)
(* code (usernames) are sequences of one-character strings.                *)
(***************************************************************************)
EXTENDS Integers, Sequences, FiniteSets, TLC

VARIABLES users, refresh_tokens, tokenCount, now, issued, last, in_flight

vars == <<users, refresh_tokens, tokenCount, now, issued, last, in_flight>>

(* ------------------------------ bounds --------------------------------- *)

\* last clock reading explored
MaxTime == 3

\* number of refresh tokens generated in a run
MaxTokens == 3

\* number of stored sessions that have been renewed (last_used_at set)
MaxRenewed == 1

\* clock ticks that may pass between two clock readings of one handler
MaxElapsed == 2

\* number of user records in a run
MaxUsers == 3

\* number of login requests served concurrently
MaxRacing == 3

\* settings.max_refresh_tokens_per_user (configurable), scaled down
max_refresh_tokens_per_user == 2

\* settings.refresh_token_expire_days (configurable), in clock ticks
refresh_token_expire_days == 2

\* settings.access_token_expire_minutes (configurable), in clock ticks
access_token_expire_minutes == 1

(* ------------------------------ strings -------------------------------- *)

\* str.lower() on one character
LowerChar(c) ==
  CASE c = "A" -> "a"
    [] c = "M" -> "m"
    [] c = "N" -> "n"
    [] OTHER -> c

\* str.lower()
Lower(s) == [i \in DOMAIN s |-> LowerChar(s[i])]

RECURSIVE LStrip(_)
LStrip(s) == IF s # <<>> /\ Head(s) = " " THEN LStrip(Tail(s)) ELSE s

RECURSIVE RStrip(_)
RStrip(s) ==
  IF s # <<>> /\ s[Len(s)] = " " THEN RStrip(SubSeq(s, 1, Len(s) - 1)) ELSE s

\* str.strip()
Strip(s) == LStrip(RStrip(s))

\* username.lower().strip() of authenticate_user
NormalizeUsername(s) == Strip(Lower(s))

\* ValidationUtils.sanitize_string: value.strip() if value else ""
sanitize_string(value) == IF value # <<>> THEN Strip(value) ELSE <<>>

\* ValidationUtils.normalize_email: email.lower().strip() if email else ""
normalize_email(email) == IF email # <<>> THEN Strip(Lower(email)) ELSE <<>>

(* --------------------------- credential hasher ------------------------- *)

\* pwd_context.hash: one-way, so the hash is never equal to the plaintext
get_password_hash(p) == <<"bcrypt", p>>

verify_password(plain, hashed) == hashed = get_password_hash(plain)

(* ------------------------------ users ---------------------------------- *)

NoUser == 0

UserIds == DOMAIN users

\* db.query(User).filter(User.username == username).first()
get_by_username(username) ==
  IF \E u \in UserIds : users[u].username = username
  THEN CHOOSE u \in UserIds : users[u].username = username
  ELSE NoUser

\* db.query(User).filter(User.id == id).first()
get_by_id(id) == IF id \in UserIds THEN id ELSE NoUser

\* a uniqueness test that never finds the username
exists_username_never(username) == FALSE

\* UserRepository.exists_username
exists_username(username) == \E u \in UserIds : users[u].username = username

\* UserRepository.exists_email
exists_email(email) == \E u \in UserIds : users[u].email = email

\* values of the enum models.user.UserRole
UserRole ==
  {"ADMINISTRADOR", "ADMIN_BODEGA", "HOUSEKEEPER", "JEFE_RECEPCION",
   "GERENTE", "CONTROLLER"}

\* authenticate_user without the password check
authenticate_user_any_password(username, password) ==
  get_by_username(NormalizeUsername(username))

\* authenticate_user that turns an inactive user away before the password
\* check
authenticate_user_active_first(username, password) ==
  LET user == get_by_username(NormalizeUsername(username)) IN
  IF user = NoUser THEN NoUser
  ELSE IF ~users[user].is_active THEN NoUser
  ELSE IF ~verify_password(password, users[user].hashed_password) THEN NoUser
  ELSE user

\* AuthService.authenticate_user
authenticate_user(username, password) ==
  LET user == get_by_username(NormalizeUsername(username)) IN
  IF user = NoUser THEN NoUser
  ELSE IF ~verify_password(password, users[user].hashed_password) THEN NoUser
  ELSE user

(* --------------------------- session store ----------------------------- *)

\* get_by_token accepting a row whose expiry is the current instant
get_by_token_until_expiry(token) ==
  {r \in refresh_tokens :
     r.token = token /\ r.is_active /\ r.expires_at >= now}

\* RefreshTokenRepository.get_by_token: exact string, active, not expired
get_by_token(token) ==
  {r \in refresh_tokens :
     r.token = token /\ r.is_active /\ r.expires_at > now}

\* cleanup that keeps a row whose expiry is the current instant
cleanup_expired_tokens_strict(rows) == {r \in rows : ~(r.expires_at < now)}

\* rows left by RefreshTokenRepository.cleanup_expired_tokens
cleanup_expired_tokens(rows) == {r \in rows : ~(r.expires_at <= now)}

\* return value (row count) of RefreshTokenRepository.cleanup_expired_tokens
cleanup_expired_tokens_count(rows) ==
  Cardinality(rows) - Cardinality(cleanup_expired_tokens(rows))

\* RefreshTokenRepository._get_active_tokens_query
active_tokens_query(rows, user_id) ==
  {r \in rows : r.user_id = user_id /\ r.is_active /\ r.expires_at > now}

\* count_active_tokens_by_user with the active flag inverted
count_revoked_tokens_by_user(rows, user_id) ==
  Cardinality({r \in rows :
                 r.user_id = user_id /\ ~r.is_active /\ r.expires_at > now})

\* RefreshTokenRepository.count_active_tokens_by_user
count_active_tokens_by_user(rows, user_id) ==
  Cardinality(active_tokens_query(rows, user_id))

\* get_oldest_token_by_user ordering by created_at descending
newest_tokens_by_user(rows, user_id) ==
  {r \in {q \in rows : q.user_id = user_id /\ q.is_active /\ q.expires_at > now} :
     \A q \in {q \in rows : q.user_id = user_id /\ q.is_active /\ q.expires_at > now} :
       r.created_at >= q.created_at}

\* candidates of get_oldest_token_by_user: order_by(created_at.asc()).first();
\* the order among equal created_at is not determined by the query
oldest_tokens_by_user(rows, user_id) ==
  {r \in active_tokens_query(rows, user_id) :
     \A q \in active_tokens_query(rows, user_id) : r.created_at <= q.created_at}

\* revoke_token that loses the flag update (no commit)
revoke_token_lost_update(rows, token) == rows

\* revoke_token that deletes the row instead of flipping the flag
revoke_token_hard_delete(rows, token) == {r \in rows : r.token # token}

\* rows after RefreshTokenRepository.revoke_token(token)
revoke_token(rows, token) ==
  {IF r.token = token THEN [r EXCEPT !.is_active = FALSE] ELSE r : r \in rows}

\* revoke_token reporting only rows it had to flip
revoke_token_found_active(rows, token) ==
  \E r \in rows : r.token = token /\ r.is_active

\* return value of RefreshTokenRepository.revoke_token(token)
revoke_token_found(rows, token) == \E r \in rows : r.token = token

\* revoke_all_user_tokens built on the active-and-unexpired query
revoke_all_user_tokens_unexpired(rows, user_id) ==
  {IF r.user_id = user_id /\ r.is_active /\ r.expires_at > now
   THEN [r EXCEPT !.is_active = FALSE] ELSE r : r \in rows}

\* revoke_all_user_tokens that flips the flag of every row of the user
revoke_all_user_tokens_toggle(rows, user_id) ==
  {IF r.user_id = user_id
   THEN [r EXCEPT !.is_active = ~r.is_active] ELSE r : r \in rows}

\* rows after RefreshTokenRepository.revoke_all_user_tokens(user_id)
revoke_all_user_tokens(rows, user_id) ==
  {IF r.user_id = user_id /\ r.is_active
   THEN [r EXCEPT !.is_active = FALSE] ELSE r : r \in rows}

\* return value (row count) of RefreshTokenRepository.revoke_all_user_tokens
revoke_all_user_tokens_count(rows, user_id) ==
  Cardinality({r \in rows : r.user_id = user_id /\ r.is_active})

\* rows after RefreshTokenRepository.update_last_used(token) at clock reading t
update_last_used(rows, token, t) ==
  {IF r.token = token THEN [r EXCEPT !.last_used_at = <<t>>] ELSE r :
     r \in rows}

\* create_refresh_token that ignores the expiry it is given: the row
\* expires at the moment it is stored
create_refresh_token_row_expired(token, user_id, expires_at) ==
  [token |-> token, user_id |-> user_id, is_active |-> TRUE,
   created_at |-> now, expires_at |-> now, last_used_at |-> <<>>]

\* row inserted by RefreshTokenRepository.create_refresh_token
create_refresh_token_row(token, user_id, expires_at) ==
  [token |-> token, user_id |-> user_id, is_active |-> TRUE,
   created_at |-> now, expires_at |-> expires_at, last_used_at |-> <<>>]

(* ------------------------------ token codec ---------------------------- *)

\* security.create_access_token: {"sub": ..., "exp": now + ttl}, signed
create_access_token(sub, ttl) == [sub |-> sub, exp |-> now + ttl]

\* a bearer string that is not a token signed with the server secret
Forged == [sub |-> <<>>, exp |-> 0 - 1]

\* jwt.decode: signature and "exp" check (expired when exp < now)
jwt_decode_ok(tok) == tok # Forged /\ ~(tok.exp < now)

\* verify_token that skips the expiry check
verify_token_unchecked(token) ==
  IF token # Forged THEN <<[sub |-> token.sub, exp |-> token.exp]>> ELSE <<>>

\* security.verify_token: the decoded payload, or None (<<>>) on JWTError
verify_token(token) ==
  IF jwt_decode_ok(token) THEN <<[sub |-> token.sub, exp |-> token.exp]>>
  ELSE <<>>

(* ------------------------------ responses ------------------------------ *)

\* fields TokenResponse declares without a default (schemas/token.py)
TokenResponseRequired ==
  {"access_token", "refresh_token", "expires_in", "refresh_expires_in", "user"}

\* pydantic construction of TokenResponse(**fields): every required field
\* must be given, unknown keyword arguments are ignored
TokenResponseValid(fields) == TokenResponseRequired \subseteq fields

\* keyword arguments AuthService.login passes to TokenResponse
LoginResponseFields ==
  {"access_token", "token_type", "expires_in", "refresh_token",
   "refresh_expires_in", "user"}

\* keyword arguments AuthService.refresh_access_token passes to TokenResponse
RefreshResponseFields ==
  {"access_token", "token_type", "expires_in", "refresh_token",
   "refresh_expires_in", "user_id", "username"}

\* Python truth value of an int (`if success:`)
Truthy(n) == n # 0

\* what the client observes of one request: status code, detail / message,
\* and in a token response the refresh token, the access token's subject
\* and the user; evicted is login's local oldest_token.token (0: none)
Response(op, status, detail) ==
  [op |-> op, status |-> status, detail |-> detail, token |-> 0,
   sub |-> <<>>, user |-> NoUser, evicted |-> 0]

(* ------------------------------ identity gate -------------------------- *)

\* dependencies.get_current_user: decode, then look the subject up
get_current_user(tok) ==
  IF ~jwt_decode_ok(tok) THEN
    [status |-> 401, detail |-> "No se pudieron validar las credenciales",
     user |-> NoUser]
  ELSE IF get_by_username(tok.sub) = NoUser THEN
    [status |-> 401, detail |-> "No se pudieron validar las credenciales",
     user |-> NoUser]
  ELSE [status |-> 200, detail |-> "", user |-> get_by_username(tok.sub)]

\* a gate that also requires a live session (refresh token) of the user
get_current_active_user_with_session(tok) ==
  IF ~jwt_decode_ok(tok) \/ get_by_username(tok.sub) = NoUser THEN
    [status |-> 401, detail |-> "No se pudieron validar las credenciales",
     user |-> NoUser]
  ELSE IF ~users[get_by_username(tok.sub)].is_active THEN
    [status |-> 400, detail |-> "Usuario inactivo", user |-> NoUser]
  ELSE IF ~\E r \in refresh_tokens :
             r.user_id = get_by_username(tok.sub) /\ r.is_active THEN
    [status |-> 401, detail |-> "No se pudieron validar las credenciales",
     user |-> NoUser]
  ELSE [status |-> 200, detail |-> "", user |-> get_by_username(tok.sub)]

\* dependencies.get_current_user + get_current_active_user
get_current_active_user(tok) ==
  IF ~jwt_decode_ok(tok) THEN
    [status |-> 401, detail |-> "No se pudieron validar las credenciales",
     user |-> NoUser]
  ELSE IF get_by_username(tok.sub) = NoUser THEN
    [status |-> 401, detail |-> "No se pudieron validar las credenciales",
     user |-> NoUser]
  ELSE IF ~users[get_by_username(tok.sub)].is_active THEN
    [status |-> 400, detail |-> "Usuario inactivo", user |-> NoUser]
  ELSE [status |-> 200, detail |-> "", user |-> get_by_username(tok.sub)]

\* an admin gate that tests the role before the active flag
get_current_admin_user_role_first(tok) ==
  LET g == get_current_user(tok) IN
  IF g.status # 200 THEN g
  ELSE IF users[g.user].role # "ADMINISTRADOR" THEN
    [status |-> 403,
     detail |-> "No tienes permisos de administrador para realizar esta accion",
     user |-> NoUser]
  ELSE IF ~users[g.user].is_active THEN
    [status |-> 400, detail |-> "Usuario inactivo", user |-> NoUser]
  ELSE g

\* routers/auth.get_current_admin_user
get_current_admin_user(tok) ==
  LET g == get_current_active_user(tok) IN
  IF g.status # 200 THEN g
  ELSE IF users[g.user].role # "ADMINISTRADOR" THEN
    [status |-> 403,
     detail |-> "No tienes permisos de administrador para realizar esta accion",
     user |-> NoUser]
  ELSE g

(* ------------------------------ initial state -------------------------- *)

\* login requests that may be served concurrently
Requests == 1..MaxRacing

\* a login call that has not begun: its position in AuthService.login and
\* its locals user, active_tokens and oldest_token (0: None)
NotStarted ==
  [pc |-> "start", user |-> NoUser, active_tokens |-> 0, oldest_token |-> 0]

\* database after init_db.py / seed_data.py: the default administrator and
\* one seeded employee, no sessions
Init ==
  /\ users = <<[username |-> <<"a">>, email |-> <<"a">>,
                hashed_password |-> get_password_hash("p1"),
                role |-> "ADMINISTRADOR", is_active |-> TRUE],
               [username |-> <<"m">>, email |-> <<"m">>,
                hashed_password |-> get_password_hash("p2"),
                role |-> "HOUSEKEEPER", is_active |-> TRUE]>>
  /\ refresh_tokens = {}
  /\ tokenCount = 0
  /\ now = 0
  /\ issued = {}
  /\ last = Response("init", 0, "")
  /\ in_flight = [p \in Requests |-> NotStarted]

(* ------------------------------ session manager ------------------------ *)

\* the session-limit test with a strict comparison
session_limit_exceeded(active_tokens) ==
  active_tokens > max_refresh_tokens_per_user

\* `if active_tokens >= settings.max_refresh_tokens_per_user` of login
session_limit_reached(active_tokens) ==
  active_tokens >= max_refresh_tokens_per_user

\* AuthService.login: the possible outcomes [resp, rows, access] of one
\* call (several when the oldest session is not unique)
login(username, password) ==
  LET user == authenticate_user(username, password) IN
  IF user = NoUser THEN
    {[resp |-> Response("login", 401, "Credenciales incorrectas"),
      rows |-> refresh_tokens, access |-> Forged]}
  ELSE IF ~users[user].is_active THEN
    {[resp |-> Response("login", 400, "Usuario inactivo"),
      rows |-> refresh_tokens, access |-> Forged]}
  ELSE
    LET cleaned == cleanup_expired_tokens(refresh_tokens)
        active_tokens == count_active_tokens_by_user(cleaned, user)
        oldest == oldest_tokens_by_user(cleaned, user)
        \* token strings revoke_token may be called with (0: no call)
        oldest_token == IF session_limit_reached(active_tokens) /\ oldest # {}
                        THEN {o.token : o \in oldest}
                        ELSE {0}
        access_token ==
          create_access_token(users[user].username, access_token_expire_minutes)
        secure_token == tokenCount + 1
    IN
    {[resp |-> IF TokenResponseValid(LoginResponseFields)
               THEN [Response("login", 200, "") EXCEPT
                       !.token = secure_token, !.sub = access_token.sub,
                       !.user = user, !.evicted = o]
               ELSE Response("login", 500, "ValidationError"),
      rows |-> revoke_token(cleaned, o) \cup
                 {create_refresh_token_row(secure_token, user,
                                           now + refresh_token_expire_days)},
      access |-> access_token] : o \in oldest_token}

\* AuthService.refresh_access_token: outcome [resp, rows] of one call;
\* `later` is the clock reading of the statements after get_by_token
refresh_access_token(token, later) ==
  LET found == get_by_token(token) IN
  IF found = {} \/ \E r \in found : ~r.is_active THEN
    [resp |-> [Response("refresh", 401, "Refresh token invalido o expirado")
                 EXCEPT !.token = token],
     rows |-> refresh_tokens]
  ELSE
    LET db_refresh_token == CHOOSE r \in found : TRUE
        user == get_by_id(db_refresh_token.user_id)
    IN
    IF db_refresh_token.expires_at < later THEN
      [resp |-> [Response("refresh", 401, "Refresh token expirado")
                   EXCEPT !.token = token],
       rows |-> revoke_token(refresh_tokens, token)]
    ELSE IF user = NoUser \/ ~users[user].is_active THEN
      [resp |-> [Response("refresh", 401, "Usuario no encontrado o inactivo")
                   EXCEPT !.token = token],
       rows |-> refresh_tokens]
    ELSE
      [resp |-> IF TokenResponseValid(RefreshResponseFields)
                THEN [Response("refresh", 200, "") EXCEPT
                        !.token = token, !.user = user,
                        !.sub = users[user].username]
                ELSE [Response("refresh", 500, "ValidationError")
                        EXCEPT !.token = token],
       rows |-> update_last_used(refresh_tokens, token, later)]

\* POST /auth/logout: AuthService.logout and the router's answer
logout(token) ==
  LET success == revoke_token_found(refresh_tokens, token) IN
  [resp |-> IF success
            THEN [Response("logout", 200, "Sesion cerrada exitosamente")
                    EXCEPT !.token = token]
            ELSE [Response("logout", 400, "Error al cerrar sesion")
                    EXCEPT !.token = token],
   rows |-> revoke_token(refresh_tokens, token)]

\* POST /auth/logout-all: gate, AuthService.logout_all_devices and the
\* router's answer
logout_all_devices(bearer) ==
  LET g == get_current_active_user(bearer) IN
  IF g.status # 200 THEN
    [resp |-> Response("logout_all", g.status, g.detail),
     rows |-> refresh_tokens]
  ELSE
    LET success == revoke_all_user_tokens_count(refresh_tokens, g.user) IN
    [resp |-> IF Truthy(success)
              THEN [Response("logout_all", 200,
                             "Sesion cerrada en todos los dispositivos")
                      EXCEPT !.user = g.user]
              ELSE [Response("logout_all", 400, "Error al cerrar sesiones")
                      EXCEPT !.user = g.user],
     rows |-> revoke_all_user_tokens(refresh_tokens, g.user)]

(* ------------------------------ user manager -------------------------- *)

\* str.lower().strip() on a role string
role_lower(role) ==
  CASE role = "ADMINISTRADOR" -> "administrador"
    [] role = "ADMIN_BODEGA" -> "admin_bodega"
    [] role = "HOUSEKEEPER" -> "housekeeper"
    [] role = "JEFE_RECEPCION" -> "jefe_recepcion"
    [] role = "GERENTE" -> "gerente"
    [] role = "CONTROLLER" -> "controller"
    [] OTHER -> role

\* schemas.UserCreate: request-body validation (<<>>: 422).  role is parsed
\* to a member of UserRole by value, default HOUSEKEEPER; the validators
\* sanitize the username and normalise the email
UserCreate(body) ==
  IF body.role # <<>> /\ body.role[1] \notin UserRole THEN <<>>
  ELSE <<[username |-> sanitize_string(body.username),
          email |-> normalize_email(body.email),
          password |-> body.password,
          role |-> [kind |-> "enum",
                    value |-> IF body.role = <<>> THEN "HOUSEKEEPER"
                              ELSE body.role[1]]]>>

\* row inserted by UserRepository.create
UserRepository_create(user_create) ==
  [username |-> user_create.username, email |-> user_create.email,
   hashed_password |-> get_password_hash(user_create.password),
   role |-> user_create.role.value, is_active |-> TRUE]

\* AuthService.register: outcome [resp, users] of one call
register(op, user_create) ==
  LET username == NormalizeUsername(user_create.username)
      role_str == role_lower(user_create.role.value)
      role == IF user_create.role.kind = "str"
              THEN [kind |-> "enum", value |-> role_str]
              ELSE user_create.role
  IN
  IF user_create.role.kind = "str" /\ role_str \notin UserRole THEN
    [resp |-> Response(op, 400, "Rol invalido"), users |-> users]
  ELSE IF exists_username(username) THEN
    [resp |-> Response(op, 400, "El nombre de usuario ya esta registrado"),
     users |-> users]
  ELSE IF exists_email(user_create.email) THEN
    [resp |-> Response(op, 400, "El email ya esta registrado"),
     users |-> users]
  ELSE
    [resp |-> [Response(op, 201, "") EXCEPT
                 !.user = Len(users) + 1, !.sub = username],
     users |-> Append(users,
                      UserRepository_create(
                        [user_create EXCEPT !.username = username,
                                            !.role = role]))]

\* POST /auth/register: body validation, then AuthService.register
register_route(body) ==
  IF UserCreate(body) = <<>> THEN
    [resp |-> Response("register", 422, "role: invalid enum value"),
     users |-> users]
  ELSE register("register", UserCreate(body)[1])

\* POST /auth/create-user: admin gate, body validation, AuthService.register
create_user(bearer, body) ==
  LET g == get_current_admin_user(bearer) IN
  IF g.status # 200 THEN
    [resp |-> Response("create_user", g.status, g.detail), users |-> users]
  ELSE IF UserCreate(body) = <<>> THEN
    [resp |-> Response("create_user", 422, "role: invalid enum value"),
     users |-> users]
  ELSE register("create_user", UserCreate(body)[1])

\* schemas.UserUpdate with no field set
UserUpdate ==
  [username |-> <<>>, email |-> <<>>, is_active |-> <<>>, role |-> <<>>,
   password |-> <<>>]

\* row after UserRepository.update: the fields set in the body are assigned,
\* a password is stored hashed
UserRepository_update(row, user_update) ==
  [row EXCEPT
     !.username = IF user_update.username # <<>>
                  THEN user_update.username[1] ELSE @,
     !.email = IF user_update.email # <<>> THEN user_update.email[1] ELSE @,
     !.is_active = IF user_update.is_active # <<>>
                   THEN user_update.is_active[1] ELSE @,
     !.role = IF user_update.role # <<>> THEN user_update.role[1] ELSE @,
     !.hashed_password = IF user_update.password # <<>>
                         THEN get_password_hash(user_update.password[1])
                         ELSE @]

\* PUT /auth/users/{user_id}: outcome [resp, users] of one call
update_user(bearer, user_id, user_update) ==
  LET g == get_current_admin_user(bearer) IN
  IF g.status # 200 THEN
    [resp |-> Response("update_user", g.status, g.detail), users |-> users]
  ELSE IF get_by_id(user_id) = NoUser THEN
    [resp |-> Response("update_user", 404, "Usuario no encontrado"),
     users |-> users]
  ELSE IF /\ user_update.username # <<>>
          /\ user_update.username[1] # <<>>
          /\ user_update.username[1] # users[user_id].username
          /\ exists_username(user_update.username[1]) THEN
    [resp |-> Response("update_user", 400, "El nombre de usuario ya esta en uso"),
     users |-> users]
  ELSE IF /\ user_update.email # <<>>
          /\ user_update.email[1] # <<>>
          /\ user_update.email[1] # users[user_id].email
          /\ exists_email(user_update.email[1]) THEN
    [resp |-> Response("update_user", 400, "El email ya esta en uso"),
     users |-> users]
  ELSE
    [resp |-> [Response("update_user", 200, "") EXCEPT !.user = user_id],
     users |-> [users EXCEPT
                  ![user_id] = UserRepository_update(@, user_update)]]

\* change_password that does not verify the current password
change_password_unverified(bearer, current_password, new_password) ==
  LET g == get_current_active_user(bearer) IN
  IF g.status # 200 THEN
    [resp |-> Response("change_password", g.status, g.detail), users |-> users]
  ELSE
    [resp |-> [Response("change_password", 200,
                        "Contrasena actualizada exitosamente")
                 EXCEPT !.user = g.user],
     users |-> [users EXCEPT
                  ![g.user] =
                    UserRepository_update(
                      @, [UserUpdate EXCEPT !.password = <<new_password>>])]]

\* AuthService.change_password behind the gate of POST /auth/change-password:
\* outcome [resp, users] of one call
change_password(bearer, current_password, new_password) ==
  LET g == get_current_active_user(bearer) IN
  IF g.status # 200 THEN
    [resp |-> Response("change_password", g.status, g.detail), users |-> users]
  ELSE IF ~verify_password(current_password, users[g.user].hashed_password) THEN
    [resp |-> [Response("change_password", 400, "Contrasena actual incorrecta")
                 EXCEPT !.user = g.user],
     users |-> users]
  ELSE
    [resp |-> [Response("change_password", 200,
                        "Contrasena actualizada exitosamente")
                 EXCEPT !.user = g.user],
     users |-> [users EXCEPT
                  ![g.user] =
                    UserRepository_update(
                      @, [UserUpdate EXCEPT !.password = <<new_password>>])]]

(* ------------------------------ requests ------------------------------- *)

\* usernames a client may type
RawUsernames == {<<"a">>, <<" ", "M">>, <<"z">>}

Passwords == {"p1", "p2"}

\* bearer strings a client may present
BearerTokens == {i.tok : i \in issued} \cup {Forged}

\* refresh-token strings a client may present (0: never generated)
TokenStrings == 0..tokenCount

\* user ids a client may name (the last one does not exist)
RequestUserIds == 1..(Len(users) + 1)

\* user ids the administrator edits: the employee and a missing id
UpdateUserIds == 2..(Len(users) + 1)

\* PUT bodies that set only the active flag
ActiveFlagUpdates ==
  {[UserUpdate EXCEPT !.is_active = <<b>>] : b \in BOOLEAN}

\* PUT bodies that set the username and / or the email
ProfileUpdates ==
  {[UserUpdate EXCEPT !.username = u, !.email = e] :
     u \in {<<>>, << <<"a">> >>, << <<"N">> >>},
     e \in {<<>>, << <<"a">> >>, << <<"n">> >>}}

\* PUT bodies that set only the role
RoleUpdates ==
  {[UserUpdate EXCEPT !.role = <<r>>] : r \in {"ADMINISTRADOR", "HOUSEKEEPER"}}

\* POST bodies of register / create-user
UserCreateBodies ==
  {[username |-> u, email |-> e, role |-> r, password |-> "p2"] :
     u \in {<<"M">>, <<" ", "N">>},
     e \in {<<"M">>, <<"n">>},
     r \in {<<>>, <<"ADMINISTRADOR">>, <<"administrador">>}}

\* the clock advances
Tick ==
  /\ now < MaxTime
  /\ now' = now + 1
  /\ last' = Response("tick", 0, "")
  /\ UNCHANGED <<users, refresh_tokens, tokenCount, issued, in_flight>>

\* POST /auth/login
Login(username, password) ==
  \E out \in login(username, password) :
    /\ last' = out.resp
    /\ refresh_tokens' = out.rows
    /\ IF out.resp.status \in {401, 400} THEN
         UNCHANGED <<tokenCount, issued>>
       ELSE
         /\ tokenCount < MaxTokens
         /\ tokenCount' = tokenCount + 1
         /\ issued' = issued \cup {[tok |-> out.access, uid |-> out.resp.user]}
    /\ UNCHANGED <<users, now, in_flight>>

\* no login request is between two of its store statements
NoneInFlight == \A p \in Requests : in_flight[p].pc \in {"start", "done"}

\* POST /auth/login served with no other login in progress
NonRacingLogin(username, password) ==
  /\ \A p \in Requests : in_flight[p].pc = "start"
  /\ Login(username, password)

\* AuthService.login, statement by statement, for request p.
\* authenticate_user, the active test and cleanup_expired_tokens()
LoginCleanup(p, username, password) ==
  LET user == authenticate_user(username, password) IN
  /\ in_flight[p].pc = "start"
  /\ user # NoUser /\ users[user].is_active
  /\ refresh_tokens' = cleanup_expired_tokens(refresh_tokens)
  /\ in_flight' = [in_flight EXCEPT ![p].pc = "count", ![p].user = user]
  /\ UNCHANGED <<users, tokenCount, now, issued, last>>

\* active_tokens = count_active_tokens_by_user(user.id)
LoginCount(p) ==
  /\ in_flight[p].pc = "count"
  /\ in_flight' =
       [in_flight EXCEPT
          ![p].active_tokens =
             count_active_tokens_by_user(refresh_tokens, in_flight[p].user),
          ![p].pc = "oldest"]
  /\ UNCHANGED <<users, refresh_tokens, tokenCount, now, issued, last>>

\* if active_tokens >= max: oldest_token = get_oldest_token_by_user(user.id)
LoginOldest(p) ==
  /\ in_flight[p].pc = "oldest"
  /\ IF session_limit_reached(in_flight[p].active_tokens) THEN
       LET oldest == oldest_tokens_by_user(refresh_tokens, in_flight[p].user) IN
       IF oldest = {} THEN
         in_flight' = [in_flight EXCEPT ![p].pc = "create"]
       ELSE
         \E o \in oldest :
           in_flight' = [in_flight EXCEPT ![p].oldest_token = o.token,
                                          ![p].pc = "revoke"]
     ELSE in_flight' = [in_flight EXCEPT ![p].pc = "create"]
  /\ UNCHANGED <<users, refresh_tokens, tokenCount, now, issued, last>>

\* revoke_token(oldest_token.token)
LoginRevoke(p) ==
  /\ in_flight[p].pc = "revoke"
  /\ refresh_tokens' = revoke_token(refresh_tokens, in_flight[p].oldest_token)
  /\ in_flight' = [in_flight EXCEPT ![p].pc = "create"]
  /\ UNCHANGED <<users, tokenCount, now, issued, last>>

\* create_access_token, generate_secure_token, create_refresh_token and the
\* TokenResponse
LoginCreate(p) ==
  LET user == in_flight[p].user
      access_token ==
        create_access_token(users[user].username, access_token_expire_minutes)
      secure_token == tokenCount + 1
  IN
  /\ in_flight[p].pc = "create"
  /\ refresh_tokens' =
       refresh_tokens \cup
         {create_refresh_token_row(secure_token, user,
                                   now + refresh_token_expire_days)}
  /\ tokenCount' = tokenCount + 1
  /\ issued' = issued \cup {[tok |-> access_token, uid |-> user]}
  /\ last' = [Response("login", 200, "") EXCEPT
                !.token = secure_token, !.sub = access_token.sub,
                !.user = user, !.evicted = in_flight[p].oldest_token]
  /\ in_flight' = [in_flight EXCEPT ![p].pc = "done"]
  /\ UNCHANGED <<users, now>>

\* POST /auth/refresh
RefreshAccess(token, elapsed) ==
  LET out == refresh_access_token(token, now + elapsed) IN
  /\ now + elapsed <= MaxTime
  /\ Cardinality({r \in out.rows : r.last_used_at # <<>>}) <= MaxRenewed
  /\ now' = now + elapsed
  /\ last' = out.resp
  /\ refresh_tokens' = out.rows
  /\ UNCHANGED <<users, tokenCount, issued, in_flight>>

\* POST /auth/logout
Logout(token) ==
  LET out == logout(token) IN
  /\ last' = out.resp
  /\ refresh_tokens' = out.rows
  /\ UNCHANGED <<users, tokenCount, now, issued, in_flight>>

\* POST /auth/logout-all
LogoutAll(bearer) ==
  LET out == logout_all_devices(bearer) IN
  /\ last' = out.resp
  /\ refresh_tokens' = out.rows
  /\ UNCHANGED <<users, tokenCount, now, issued, in_flight>>

\* GET /auth/me
Me(bearer) ==
  LET g == get_current_active_user(bearer) IN
  /\ last' = [Response("me", g.status, g.detail) EXCEPT !.user = g.user]
  /\ UNCHANGED <<users, refresh_tokens, tokenCount, now, issued, in_flight>>

\* DELETE /auth/users/{user_id} -> UserRepository.delete (soft delete)
DeleteUser(bearer, user_id) ==
  LET g == get_current_admin_user(bearer) IN
  /\ UNCHANGED <<refresh_tokens, tokenCount, now, issued, in_flight>>
  /\ IF g.status # 200 THEN
       /\ last' = Response("delete_user", g.status, g.detail)
       /\ UNCHANGED users
     ELSE IF get_by_id(user_id) = NoUser THEN
       /\ last' = Response("delete_user", 404, "Usuario no encontrado")
       /\ UNCHANGED users
     ELSE IF user_id = g.user THEN
       /\ last' = Response("delete_user", 400,
                           "No puedes eliminar tu propio usuario")
       /\ UNCHANGED users
     ELSE
       /\ users' = [users EXCEPT ![user_id].is_active = FALSE]
       /\ last' = [Response("delete_user", 200, "") EXCEPT !.user = user_id]

\* PUT /auth/users/{user_id}
UpdateUser(bearer, user_id, user_update) ==
  LET out == update_user(bearer, user_id, user_update) IN
  /\ last' = out.resp
  /\ users' = out.users
  /\ UNCHANGED <<refresh_tokens, tokenCount, now, issued, in_flight>>

\* POST /auth/change-password
ChangePassword(bearer, current_password, new_password) ==
  LET out == change_password(bearer, current_password, new_password) IN
  /\ last' = out.resp
  /\ users' = out.users
  /\ UNCHANGED <<refresh_tokens, tokenCount, now, issued, in_flight>>

\* GET /hotels/ (hotels.get_hotels): guarded by get_current_user
GetHotels(bearer) ==
  LET g == get_current_user(bearer) IN
  /\ last' = [Response("get_hotels", g.status, g.detail) EXCEPT !.user = g.user]
  /\ UNCHANGED <<users, refresh_tokens, tokenCount, now, issued, in_flight>>

\* POST /auth/register
Register(body) ==
  LET out == register_route(body) IN
  /\ out.resp.status = 201 => Len(users) < MaxUsers
  /\ last' = out.resp
  /\ users' = out.users
  /\ UNCHANGED <<refresh_tokens, tokenCount, now, issued, in_flight>>

\* POST /auth/create-user
CreateUser(bearer, body) ==
  LET out == create_user(bearer, body) IN
  /\ out.resp.status = 201 => Len(users) < MaxUsers
  /\ last' = out.resp
  /\ users' = out.users
  /\ UNCHANGED <<refresh_tokens, tokenCount, now, issued, in_flight>>

Next ==
  \/ Tick
  \/ \E username \in RawUsernames, password \in Passwords :
       Login(username, password)
  \/ \E token \in TokenStrings, elapsed \in 0..MaxElapsed :
       RefreshAccess(token, elapsed)
  \/ \E token \in TokenStrings : Logout(token)
  \/ \E bearer \in BearerTokens : LogoutAll(bearer)
  \/ \E bearer \in BearerTokens : Me(bearer)
  \/ \E bearer \in BearerTokens, user_id \in RequestUserIds :
       DeleteUser(bearer, user_id)
  \/ \E bearer \in BearerTokens, user_id \in UpdateUserIds,
        user_update \in ActiveFlagUpdates :
       UpdateUser(bearer, user_id, user_update)
  \/ \E bearer \in BearerTokens : GetHotels(bearer)

\* sessions, gates and the clock, with the set of users fixed
Spec == Init /\ [][Next]_vars

\* user management: the seeded users sign in, users are registered, created
\* and edited; the clock stands still
NextUsers ==
  \/ \E username \in {<<"a">>, <<" ", "M">>}, password \in Passwords :
       Login(username, password)
  \/ \E body \in UserCreateBodies : Register(body)
  \/ \E bearer \in BearerTokens, body \in UserCreateBodies :
       CreateUser(bearer, body)
  \/ \E bearer \in BearerTokens, user_id \in UpdateUserIds,
        user_update \in ProfileUpdates \cup ActiveFlagUpdates \cup RoleUpdates :
       UpdateUser(bearer, user_id, user_update)

SpecUsers == Init /\ [][NextUsers]_vars

\* passwords: users sign in, change their password and renew sessions
NextPassword ==
  \/ Tick
  \/ \E username \in {<<"a">>, <<" ", "M">>}, password \in Passwords :
       Login(username, password)
  \/ \E bearer \in BearerTokens, current_password \in Passwords,
        new_password \in Passwords :
       ChangePassword(bearer, current_password, new_password)
  \/ \E token \in TokenStrings : RefreshAccess(token, 0)
  \/ \E bearer \in BearerTokens : DeleteUser(bearer, 2)

SpecPassword == Init /\ [][NextPassword]_vars

\* concurrent logins of the administrator: logins served alone first, then
\* up to MaxRacing logins whose store statements interleave
NextRace ==
  \/ Tick
  \/ NonRacingLogin(<<"a">>, "p1")
  \/ \E p \in Requests : LoginCleanup(p, <<"a">>, "p1")
  \/ \E p \in Requests : LoginCount(p)
  \/ \E p \in Requests : LoginOldest(p)
  \/ \E p \in Requests : LoginRevoke(p)
  \/ \E p \in Requests : LoginCreate(p)

SpecRace == Init /\ [][NextRace]_vars

\* every operation that writes to the session store or to a user record
NextRevocation ==
  \/ Tick
  \/ \E username \in {<<"a">>, <<" ", "M">>}, password \in Passwords :
       Login(username, password)
  \/ \E token \in TokenStrings : RefreshAccess(token, 0)
  \/ \E token \in TokenStrings : Logout(token)
  \/ \E bearer \in BearerTokens : LogoutAll(bearer)
  \/ \E bearer \in BearerTokens, new_password \in Passwords :
       ChangePassword(bearer, "p2", new_password)
  \/ \E bearer \in BearerTokens, user_update \in ActiveFlagUpdates :
       UpdateUser(bearer, 2, user_update)
  \/ \E bearer \in BearerTokens : DeleteUser(bearer, 2)

SpecRevocation == Init /\ [][NextRevocation]_vars

(* ------------------------------ properties ----------------------------- *)

\* the sessions of a user: records that are active and not expired
Sessions(u) ==
  {r \in refresh_tokens : r.user_id = u /\ r.is_active /\ r.expires_at > now}

\* token string t was generated and no active record carries it
Revoked(t) ==
  /\ t \in 1..tokenCount
  /\ \A r \in refresh_tokens : r.token = t => ~r.is_active

\* a record with token string t is active, unexpired, and its owner is active
Usable(t) ==
  \E r \in refresh_tokens :
    /\ r.token = t /\ r.is_active /\ r.expires_at > now
    /\ r.user_id \in UserIds /\ users[r.user_id].is_active

\* refreshAccess(t) called now is answered InvalidRefreshToken (401)
RefreshFails(t) ==
  \A e \in 0..MaxElapsed : refresh_access_token(t, now + e).resp.status = 401

\* C1: for an active user, a refreshAccess on a token returned by login, with
\* no logout, eviction, deactivation or expiry in between (the record is still
\* active and unexpired, the owner active), succeeds and returns an access
\* token whose subject is the owner's username.
C1_LoginThenRefreshSucceeds ==
  [][\A r \in refresh_tokens :
       (/\ last'.op = "refresh" /\ last'.token = r.token
        /\ r.is_active /\ r.expires_at > now'
        /\ users[r.user_id].is_active)
       => (last'.status = 200 /\ last'.sub = users[r.user_id].username)]_vars

\* C2: after logout(token) on an existing record, every later
\* refreshAccess(token) is answered InvalidRefreshToken: a successful logout
\* leaves the token revoked, no operation makes a revoked token string live
\* again, and refreshAccess of a revoked token string is answered 401.
C2_LogoutThenRefreshFails ==
  /\ [][\A t \in 1..MaxTokens :
          /\ (last'.op = "logout" /\ last'.status = 200 /\ last'.token = t)
               => Revoked(t)'
          /\ Revoked(t) => Revoked(t)']_vars
  /\ [](\A t \in 1..tokenCount : Revoked(t) => RefreshFails(t))

\* refreshAccess was just refused for a token whose record is unexpired and
\* owned by an active user, but revoked
C2_Witness ==
  /\ last.op = "refresh" /\ last.status = 401
  /\ \E r \in refresh_tokens :
       /\ r.token = last.token /\ ~r.is_active /\ r.expires_at > now
       /\ users[r.user_id].is_active
       /\ Cardinality({q \in refresh_tokens : q.user_id = r.user_id}) = 1

\* C3: logoutAll(user) sets active = false on every record of that user that
\* was active, expired or not, and leaves every other record unchanged;
\* right after it refreshAccess fails on each of that user's tokens, and a
\* revoked token stays revoked in every later step.
C3_LogoutAllRevokesUserTokens ==
  [][/\ \A u \in UserIds :
          (last'.op = "logout_all" /\ last'.user = u) =>
            /\ refresh_tokens' =
                 {IF r.user_id = u THEN [r EXCEPT !.is_active = FALSE] ELSE r :
                    r \in refresh_tokens}
            /\ \A r \in refresh_tokens :
                 r.user_id = u => (Revoked(r.token)' /\ RefreshFails(r.token)')
     /\ \A t \in 1..MaxTokens : Revoked(t) => Revoked(t)'
    ]_vars

\* logoutAll has just revoked an expired session of its user while another
\* user's session stayed active
C3_Witness ==
  /\ last.op = "logout_all" /\ last.status = 200
  /\ \E r \in refresh_tokens :
       r.user_id = last.user /\ ~r.is_active /\ r.expires_at <= now
  /\ \E r \in refresh_tokens : r.user_id # last.user /\ r.is_active

\* C4: a login by a user who holds exactly max_refresh_tokens_per_user
\* sessions succeeds, and afterwards the user holds exactly that many: a
\* session with the smallest created_at has been revoked, the other sessions
\* are untouched, and the new one is active.
C4_LoginAtCapEvictsOldest ==
  /\ [][\A u \in UserIds :
          (/\ last'.op = "login" /\ last'.status = 200 /\ last'.user = u
           /\ Cardinality(Sessions(u)) = max_refresh_tokens_per_user)
          => \E o \in Sessions(u) :
               /\ \A q \in Sessions(u) : o.created_at <= q.created_at
               /\ [o EXCEPT !.is_active = FALSE] \in refresh_tokens'
               /\ \E n \in refresh_tokens' :
                    /\ n.token = last'.token /\ n.user_id = u /\ n.is_active
                    /\ Sessions(u)' = (Sessions(u) \ {o}) \cup {n}
               /\ Cardinality(Sessions(u)') = max_refresh_tokens_per_user]_vars
  /\ [](\A u \in UserIds, p \in Passwords :
          (/\ Cardinality(Sessions(u)) = max_refresh_tokens_per_user
           /\ users[u].is_active
           /\ verify_password(p, users[u].hashed_password))
          => \A out \in login(users[u].username, p) : out.resp.status = 200)

\* a login has just evicted the older of two sessions created at different
\* times
C4_Witness ==
  /\ last.op = "login" /\ last.status = 200 /\ last.evicted # 0
  /\ Cardinality(Sessions(last.user)) = max_refresh_tokens_per_user
  /\ \E o \in refresh_tokens, q \in Sessions(last.user) :
       /\ o.token = last.evicted /\ ~o.is_active /\ o.user_id = last.user
       /\ q.token # last.token /\ o.created_at < q.created_at

\* C5: with operations running one at a time, every user has at most
\* max_refresh_tokens_per_user active unexpired records in every state.
C5_SessionCap ==
  \A u \in UserIds : Cardinality(Sessions(u)) <= max_refresh_tokens_per_user

\* a user is at the cap right after a login that had to evict
C5_Witness ==
  /\ last.op = "login" /\ last.status = 200 /\ last.evicted # 0
  /\ Cardinality(Sessions(last.user)) = max_refresh_tokens_per_user

\* C6: refreshAccess(token) can succeed only where a record with exactly
\* that string is active with expires_at strictly later than now and its
\* owner exists and is active; in every other state it fails (it is answered
\* InvalidRefreshToken).
C6_RefreshOnlyWhenUsable ==
  \A t \in 0..tokenCount, e \in 0..MaxElapsed :
    LET resp == refresh_access_token(t, now + e).resp IN
    /\ resp.status = 200 => Usable(t)
    /\ ~Usable(t) => resp.status = 401

\* refreshAccess was just refused for an active, unexpired record whose
\* owner is inactive
C6_Witness ==
  /\ last.op = "refresh" /\ last.status = 401
  /\ \E r \in refresh_tokens :
       /\ r.token = last.token /\ r.is_active /\ r.expires_at > now
       /\ ~users[r.user_id].is_active

\* C7: logoutAll reports success unconditionally: whenever the request
\* passes the gate, also for a user with no active refresh token, the
\* endpoint answers with the success message.
C7_LogoutAllAlwaysSucceeds ==
  (last.op = "logout_all" /\ last.user # NoUser) => last.status = 200

\* the token strings deleted by a step
Deleted == {r.token : r \in refresh_tokens} \ {r.token : r \in refresh_tokens}'

\* C8 as stated: the purge (run by every successful login) deletes exactly
\* the records whose expires_at is strictly earlier than now.
C8_PurgeStrictlyEarlier ==
  [][(last'.op = "login" /\ last'.status = 200) =>
       Deleted = {r.token : r \in {q \in refresh_tokens : q.expires_at < now}}]_vars

\* C8 amended: the purge deletes exactly the records whose expires_at is not
\* later than now (expires_at <= now), active or revoked, leaves every other
\* record present and unmodified, and returns the number deleted; in a login
\* the only other change to an old record is the eviction.
C8_PurgeNotLater ==
  /\ [](/\ cleanup_expired_tokens(refresh_tokens) =
              {r \in refresh_tokens : r.expires_at > now}
         /\ cleanup_expired_tokens_count(refresh_tokens) =
              Cardinality({r \in refresh_tokens : r.expires_at <= now}))
  /\ [][(last'.op = "login" /\ last'.status = 200) =>
          /\ Deleted =
               {r.token : r \in {q \in refresh_tokens : q.expires_at <= now}}
          /\ \A r \in refresh_tokens :
               r.expires_at > now =>
                 \/ r \in refresh_tokens'
                 \/ /\ r.token = last'.evicted
                    /\ [r EXCEPT !.is_active = FALSE] \in refresh_tokens']_vars

\* a login has just purged: a record that was generated is gone, and a
\* record that expires later than now was kept
C8_Witness ==
  /\ last.op = "login" /\ last.status = 200
  /\ Cardinality(refresh_tokens) < tokenCount
  /\ \E r \in refresh_tokens : r.token # last.token /\ r.expires_at > now

\* C9: logout(token) returns true (the endpoint answers 200) exactly when a
\* record with that exact string exists, active, revoked or expired, and the
\* record is then inactive; when no record matches it returns false and the
\* session store is unchanged.
C9_LogoutFoundOrNot ==
  [][\A t \in 0..MaxTokens :
       (last'.op = "logout" /\ last'.token = t) =>
         /\ (last'.status = 200) <=> (\E r \in refresh_tokens : r.token = t)
         /\ last'.status \in {200, 400}
         /\ \A r \in refresh_tokens :
              r.token = t => [r EXCEPT !.is_active = FALSE] \in refresh_tokens'
         /\ \A r \in refresh_tokens' : r.token = t => ~r.is_active
         /\ (~\E r \in refresh_tokens : r.token = t)
              => refresh_tokens' = refresh_tokens]_vars

\* logout has just answered 200 for a record that was already expired
C9_Witness ==
  /\ last.op = "logout" /\ last.status = 200
  /\ \E r \in refresh_tokens :
       r.token = last.token /\ ~r.is_active /\ r.expires_at < now

\* C10: logout and logoutAll do not invalidate access tokens: an access
\* token issued at login and not past its expiry is accepted by the gate for
\* its active user whatever the state of that user's refresh tokens.
C10_AccessTokenSurvivesLogout ==
  \A i \in issued :
    (~(i.tok.exp < now) /\ users[i.uid].is_active)
    => /\ get_current_active_user(i.tok).status = 200
       /\ get_current_active_user(i.tok).user = i.uid

\* the gate has just accepted a user all of whose refresh tokens are revoked
C10_Witness ==
  /\ last.op = "me" /\ last.status = 200
  /\ \E r \in refresh_tokens : r.user_id = last.user
  /\ \A r \in refresh_tokens : r.user_id = last.user => ~r.is_active

\* C11: login with a username that does not exist and login with an
\* existing username and a wrong password have the same outcome: the same
\* 401 "Credenciales incorrectas" response and an unchanged session store.
C11_SameInvalidCredentials ==
  \A unknown \in RawUsernames, p \in Passwords :
    \A u \in UserIds, wrong \in Passwords :
      (/\ get_by_username(NormalizeUsername(unknown)) = NoUser
       /\ ~verify_password(wrong, users[u].hashed_password))
      => /\ login(unknown, p) = login(users[u].username, wrong)
         /\ login(unknown, p) =
              {[resp |-> Response("login", 401, "Credenciales incorrectas"),
                rows |-> refresh_tokens, access |-> Forged]}

\* a login has just been refused, and at this state the unknown username and
\* the wrong password are refused alike
C11_Witness ==
  /\ last = Response("login", 401, "Credenciales incorrectas")
  /\ get_by_username(NormalizeUsername(<<"z">>)) = NoUser
  /\ get_by_username(<<"a">>) # NoUser
  /\ login(<<"z">>, "p1") = login(<<"a">>, "p2")

\* a PUT body would give user_id a username or an email another user has
Collides(user_id, user_update) ==
  \E v \in UserIds \ {user_id} :
    \/ user_update.username # <<>> /\ users[v].username = user_update.username[1]
    \/ user_update.email # <<>> /\ users[v].email = user_update.email[1]

\* C12: no two user records share a username and no two share an email; a
\* register or create-user whose normalised username or email already exists
\* is refused with the duplicate-username or duplicate-email error and adds
\* no user, and an admin update that would collide with another user's
\* username or email is refused and changes nothing.
C12_UniqueUsernameEmail ==
  /\ \A u, v \in UserIds :
       u # v => /\ users[u].username # users[v].username
                /\ users[u].email # users[v].email
  /\ \A body \in UserCreateBodies, bearer \in BearerTokens :
       (/\ UserCreate(body) # <<>>
        /\ \/ exists_username(NormalizeUsername(body.username))
           \/ exists_email(normalize_email(body.email)))
       => /\ register_route(body).users = users
          /\ register_route(body).resp.status = 400
          /\ register_route(body).resp.detail \in
               {"El nombre de usuario ya esta registrado",
                "El email ya esta registrado"}
          /\ create_user(bearer, body).users = users
          /\ create_user(bearer, body).resp.status # 201
          /\ get_current_admin_user(bearer).status = 200
               => create_user(bearer, body).resp = 
                    [register_route(body).resp EXCEPT !.op = "create_user"]
  /\ \A bearer \in BearerTokens, user_id \in UserIds,
        user_update \in ProfileUpdates :
       Collides(user_id, user_update)
       => /\ update_user(bearer, user_id, user_update).users = users
          /\ update_user(bearer, user_id, user_update).resp.status # 200
          /\ get_current_admin_user(bearer).status = 200
               => /\ update_user(bearer, user_id, user_update).resp.status = 400
                  /\ update_user(bearer, user_id, user_update).resp.detail \in
                       {"El nombre de usuario ya esta en uso",
                        "El email ya esta en uso"}

\* with a third user registered, the administrator's colliding update has
\* just been refused
C12_Witness ==
  /\ Len(users) = MaxUsers
  /\ last.op = "update_user" /\ last.status = 400
  /\ last.detail = "El email ya esta en uso"

\* C13: every stored username is in normalised form (lowercase, no
\* surrounding whitespace) in every reachable state, so that login's
\* lowercase lookup finds every stored user by its stored username.
C13_StoredUsernamesNormalized ==
  \A u \in UserIds :
    /\ users[u].username = NormalizeUsername(users[u].username)
    /\ get_by_username(NormalizeUsername(users[u].username)) = u

\* the payload of a register call whose role is the string `role`, for a
\* username and an email nobody has
StringRolePayload(role) ==
  [username |-> <<"z">>, email |-> <<"z">>, password |-> "p2",
   role |-> [kind |-> "str", value |-> role]]

GateTokens ==
  BearerTokens
    \cup {create_access_token(<<"z">>, access_token_expire_minutes)}
    \cup {[sub |-> users[u].username, exp |-> now - 1] : u \in UserIds}

C16_ActiveGateOnEveryRoute ==
  (last.op \in {"me", "get_hotels"} /\ last.status = 200)
  => users[last.user].is_active

C18_RefreshKeepsSession ==
  [][\A r \in refresh_tokens :
       (/\ last'.op = "refresh" /\ last'.token = r.token
        /\ r.is_active /\ r.expires_at > now'
        /\ users[r.user_id].is_active)
       => /\ last'.status = 200 /\ last'.token = r.token
          /\ refresh_tokens' =
               (refresh_tokens \ {r}) \cup {[r EXCEPT !.last_used_at = <<now'>>]}
    ]_vars

\* C19: refreshAccess on a token whose record is active but whose expires_at
\* is in the past is refused (401) and eagerly revokes the record: after the
\* call the record's active flag is false.
C19_ExpiredTokenEagerlyRevoked ==
  [][\A r \in refresh_tokens :
       (/\ last'.op = "refresh" /\ last'.token = r.token
        /\ r.is_active /\ r.expires_at < now)
       => /\ last'.status = 401
          /\ [r EXCEPT !.is_active = FALSE] \in refresh_tokens'
          /\ r \notin refresh_tokens'
    ]_vars

\* C20: every failure of refreshAccess is the same outcome: whichever two
\* token strings are refused at a state (unknown, revoked, expired, or usable
\* with an inactive owner), the responses have the same status and message.
C20_SameRefreshFailure ==
  \A t1, t2 \in TokenStrings :
    LET r1 == refresh_access_token(t1, now).resp
        r2 == refresh_access_token(t2, now).resp
    IN (r1.status = 401 /\ r2.status = 401)
       => r1.detail = r2.detail

\* C21: login checks the password before the active flag: for an inactive
\* user a wrong password is answered InvalidCredentials (401) and only the
\* correct password is answered InactiveUser (400); and every failed login
\* leaves the session store unchanged (no purge, no eviction, no new record).
C21_PasswordBeforeActiveFlag ==
  /\ [](\A username \in RawUsernames, password \in Passwords :
          LET user == get_by_username(NormalizeUsername(username)) IN
          \A out \in login(username, password) :
            /\ (user # NoUser /\ ~users[user].is_active) =>
                 IF verify_password(password, users[user].hashed_password)
                 THEN /\ out.resp.status = 400
                      /\ out.resp.detail = "Usuario inactivo"
                 ELSE /\ out.resp.status = 401
                      /\ out.resp.detail = "Credenciales incorrectas"
            /\ out.resp.status # 200 => out.rows = refresh_tokens)
  /\ [][(last'.op = "login" /\ last'.status # 200) =>
          UNCHANGED <<refresh_tokens, tokenCount, issued, users>>]_vars

\* an inactive user has just been answered InactiveUser while the store
\* holds a record a purge would have deleted and the user's own session
C21_Witness ==
  /\ last.op = "login" /\ last.status = 400
  /\ \E r \in refresh_tokens : r.expires_at <= now
  /\ \E u \in UserIds :
       ~users[u].is_active /\ \E r \in refresh_tokens : r.user_id = u

\* C22: each successful login adds exactly one record to the session store:
\* it is owned by the logging-in user, active, with expires_at = now + refresh
\* TTL; its token string differs from every existing record's and is exactly
\* the refresh_token returned to the caller, so that get_by_token on the
\* returned value finds this record.
C22_LoginAddsOneRecord ==
  [][\A t \in 1..MaxTokens :
       (last'.op = "login" /\ last'.status = 200 /\ last'.token = t) =>
         /\ \A r \in refresh_tokens : r.token # t
         /\ {r.token : r \in refresh_tokens'} \ {r.token : r \in refresh_tokens}
              = {t}
         /\ \E n \in refresh_tokens' :
              /\ n.token = t /\ n.user_id = last'.user /\ n.is_active
              /\ n.expires_at = now + refresh_token_expire_days
              /\ n.created_at = now
              /\ {r \in refresh_tokens' : r.token = t} = {n}
              /\ get_by_token(t)' = {n}
              /\ refresh_tokens' \ {n} \subseteq
                   refresh_tokens \cup
                     {[r EXCEPT !.is_active = FALSE] : r \in refresh_tokens}
    ]_vars

\* a login has just returned a token that the store finds, next to an older
\* session of the same user and a session of another user
C22_Witness ==
  /\ last.op = "login" /\ last.status = 200 /\ last.evicted = 0
  /\ get_by_token(last.token) # {}
  /\ \E r \in refresh_tokens :
       r.user_id = last.user /\ r.token # last.token /\ r.created_at < now
  /\ \E r \in refresh_tokens : r.user_id # last.user

\* C23: revocation is a soft flag flip and the expired-token purge is the
\* only deletion path: a record leaves the store only in a successful login
\* (which runs the purge) and only if its expires_at is not in the future;
\* logout, logoutAll and the session-cap eviction never remove a record (the
\* revoked record stays, inactive).
C23_OnlyPurgeDeletes ==
  [][/\ \A r \in refresh_tokens :
          (\A q \in refresh_tokens' : q.token # r.token) =>
            /\ last'.op = "login" /\ last'.status = 200
            /\ r.expires_at <= now
     /\ last'.op \in {"logout", "logout_all"} => Deleted = {}
     /\ \A r \in refresh_tokens :
          (last'.op = "login" /\ last'.evicted = r.token) =>
            [r EXCEPT !.is_active = FALSE] \in refresh_tokens'
     /\ Cardinality(refresh_tokens') >= Cardinality(refresh_tokens)
          \/ (last'.op = "login" /\ last'.status = 200)
    ]_vars

\* logoutAll has just revoked a record that is still stored, after an
\* earlier purge had deleted another one
C23_Witness ==
  /\ last.op = "logout_all" /\ last.status = 200
  /\ \E r \in refresh_tokens : r.user_id = last.user /\ ~r.is_active
  /\ Cardinality(refresh_tokens) < tokenCount

\* C24: ChangePassword leaves the session store untouched: with a wrong
\* current password it fails and the stored hash is unchanged; with the
\* correct one the hash is replaced so that only the new password logs in
\* (a login succeeds exactly when authenticate_user accepts the password of
\* an active user, and after the change it accepts the new password only);
\* and every refresh token that was usable before the change is still usable
\* after it (refreshAccess answers each token string as it did before).
C24_ChangePasswordKeepsSessions ==
  /\ [](\A bearer \in BearerTokens, current_password \in Passwords,
           new_password \in Passwords :
          LET g == get_current_active_user(bearer)
              out == change_password(bearer, current_password, new_password)
          IN g.status = 200 =>
               IF verify_password(current_password,
                                  users[g.user].hashed_password)
               THEN /\ out.resp.status = 200
                    /\ out.users[g.user].hashed_password =
                         get_password_hash(new_password)
                    /\ \A u \in UserIds \ {g.user} : out.users[u] = users[u]
               ELSE /\ out.resp.status = 400
                    /\ out.users = users)
  /\ [](\A u \in UserIds, p \in Passwords :
          \A out \in login(users[u].username, p) :
            out.resp.status = 200 <=>
              (authenticate_user(users[u].username, p) = u /\ users[u].is_active))
  /\ [][last'.op = "change_password" =>
          /\ refresh_tokens' = refresh_tokens
          /\ \A t \in 0..MaxTokens :
               /\ Usable(t) => Usable(t)'
               /\ t \in TokenStrings =>
                    refresh_access_token(t, now)'.resp =
                      refresh_access_token(t, now).resp
          /\ last'.status # 200 => users' = users
          /\ \A u \in UserIds :
               (last'.status = 200 /\ last'.user = u) =>
                 \E new_password \in Passwords :
                   \A p \in Passwords :
                     /\ verify_password(p, users[u].hashed_password)'
                          <=> p = new_password
                     /\ authenticate_user(users[u].username, p)' = u
                          <=> p = new_password
    ]_vars

\* a user has just replaced the password by a different one while holding a
\* usable refresh token
C24_Witness ==
  /\ last.op = "change_password" /\ last.status = 200
  /\ ~verify_password(IF last.user = 1 THEN "p1" ELSE "p2",
                      users[last.user].hashed_password)
  /\ \E r \in refresh_tokens : r.user_id = last.user /\ Usable(r.token)

\* the login requests that ran step by step and have completed
Completed == {p \in Requests : in_flight[p].pc = "done"}

\* C25: when k logins of the same user run concurrently, their purge, count,
\* evict-oldest and create steps interleaved and each step atomic at the
\* store, then once all k have completed the number of that user's active
\* unexpired sessions exceeds max_refresh_tokens_per_user by at most k.
C25_RaceOvershootAtMostK ==
  NoneInFlight =>
    \A u \in UserIds :
      Cardinality(Sessions(u)) <=
        max_refresh_tokens_per_user + Cardinality(Completed)

\* all MaxRacing logins raced and completed, and the user is left above the
\* cap by MaxRacing - 1 sessions
C25_Witness ==
  /\ Completed = Requests
  /\ Cardinality(Sessions(1)) = max_refresh_tokens_per_user + MaxRacing - 1
  /\ \E r \in refresh_tokens : r.user_id = 1 /\ ~r.is_active

\* C26: an overshoot of the session cap is temporary: from a state where
\* racing logins left a user with more than max_refresh_tokens_per_user
\* active unexpired sessions, the later non-racing logins of that user
\* bring the count back to the cap without logout or expiry; as those logins
\* are then the only steps that change the store, each of them, started
\* above the cap, has to leave the user with fewer sessions than it found.
C26_OvershootRecedes ==
  \A u \in UserIds, password \in Passwords :
    (/\ NoneInFlight
     /\ Cardinality(Sessions(u)) > max_refresh_tokens_per_user
     /\ users[u].is_active
     /\ verify_password(password, users[u].hashed_password))
    => \A out \in login(users[u].username, password) :
         Cardinality({r \in out.rows :
                        r.user_id = u /\ r.is_active /\ r.expires_at > now})
           < Cardinality(Sessions(u))

\* C27: revocation is irreversible: once a record has is_active = false, no
\* operation (login, refreshAccess, logout, logoutAll, purge, change-password,
\* user update or soft delete) sets it back to true; in every step the
\* record stays as it is or is purged.
C27_RevocationIrreversible ==
  [][\A r \in refresh_tokens :
       ~r.is_active =>
         /\ \A q \in refresh_tokens' : q.token = r.token => ~q.is_active
         /\ r \in refresh_tokens' \/ \A q \in refresh_tokens' : q.token # r.token
    ]_vars

\* a user whose session had been revoked has just changed the password, and
\* the record is still revoked and unexpired
C27_Witness ==
  /\ last.op = "change_password" /\ last.status = 200
  /\ \E r \in refresh_tokens :
       r.user_id = last.user /\ ~r.is_active /\ r.expires_at > now

\* C28: an access token accepted by the identity gate always resolves to the
\* user account it was issued to: in no sequence of register, login and admin
\* update-user operations (username changes included) does a token minted at
\* the login of one user id authenticate a request as a different user id.
C28_TokenResolvesToItsUser ==
  \A i \in issued :
    get_current_user(i.tok).status = 200 => get_current_user(i.tok).user = i.uid

\* C30: only an authenticated, active ADMINISTRADOR can make an account with
\* role ADMINISTRADOR come into existence or make an existing account's role
\* ADMINISTRADOR: a step after which a user is ADMINISTRADOR who was not
\* before is a request that passed the admin gate (create-user, update-user).
C30_OnlyAdminMakesAdmin ==
  [][\A u \in DOMAIN users' :
       (/\ users'[u].role = "ADMINISTRADOR"
        /\ u \in DOMAIN users => users[u].role # "ADMINISTRADOR")
       => last'.op \in {"create_user", "update_user"}]_vars

\* C29: deactivating a user ends the sessions held at that time for good: a
\* refresh token of a deactivated user (issued before the deactivation, as an
\* inactive user cannot log in) is refused by refreshAccess, and it is still
\* refused after every later step, also after an admin update-user that sets
\* the account's active flag back to true.
C29_DeactivationEndsSessions ==
  [][\A r \in refresh_tokens :
       (r.user_id \in UserIds /\ ~users[r.user_id].is_active)
       => RefreshFails(r.token) /\ RefreshFails(r.token)']_vars

====
